---- MODULE Spec2Model ----
(***************************************************************************)
(* Model of cpolar_dashboard_fetch.py: log into the dashboard, fetch the   *)
(* status page, parse the table of online tunnels, filter it by name and   *)
(* export it as JSON / CSV / HTML.                                         *)
(*                                                                         *)
(* A Python str is a sequence of one-character strings, so that strip,     *)
(* startswith, lower, "in" and the region regular expression are computed  *)
(* character by character as the interpreter computes them.  None is a     *)
(* one-element sequence holding a token that is no character.              *)
(***************************************************************************)
EXTENDS Integers, Sequences, FiniteSets, TLC

None == <<"<None>">>

\* ------------------------------------------------------------------ bounds
MaxRows == 3
MaxTextLen == 3
MaxTunnels == 3

\* --------------------------------------------------------------- constants
DASHBOARD_BASE == <<"h","t","t","p","s",":","/","/","d","a","s","h","b","o","a","r","d",".","c","p","o","l","a","r",".","c","o","m">>
LOGIN_URL == DASHBOARD_BASE \o <<"/","l","o","g","i","n">>
STATUS_URL == DASHBOARD_BASE \o <<"/","s","t","a","t","u","s">>
LOGIN_GET_TIMEOUT == 15
LOGIN_POST_TIMEOUT == 20
STATUS_GET_TIMEOUT == 20

\* ------------------------------------------------------- str primitives
UpperLetters == <<"A","B","C","D","E","F","G","H","I","J","K","L","M","N","O","P","Q","R","S","T","U","V","W","X","Y","Z">>
LowerLetters == <<"a","b","c","d","e","f","g","h","i","j","k","l","m","n","o","p","q","r","s","t","u","v","w","x","y","z">>
Digits == {"0","1","2","3","4","5","6","7","8","9"}
Whitespace == {" ", "\n", "\t"}

Range(s) == {s[i] : i \in DOMAIN s}

\* Python truthiness of an Optional[str]: None and "" are falsy.
Truthy(s) == s # None /\ s # <<>>

\* str.lower() on one character (ASCII).
LowerChar(c) ==
    IF \E i \in DOMAIN UpperLetters : UpperLetters[i] = c
    THEN LowerLetters[CHOOSE i \in DOMAIN UpperLetters : UpperLetters[i] = c]
    ELSE c

\* str.lower()
Lower(s) == [i \in DOMAIN s |-> LowerChar(s[i])]

\* str.startswith(prefix)
StartsWith(s, prefix) ==
    /\ Len(prefix) <= Len(s)
    /\ SubSeq(s, 1, Len(prefix)) = prefix

\* sub in s
Contains(s, sub) ==
    \E i \in 1..(Len(s) - Len(sub) + 1) : SubSeq(s, i, i + Len(sub) - 1) = sub

\* str.rstrip(chars)
RECURSIVE RStrip(_, _)
RStrip(s, chars) ==
    IF s # <<>> /\ s[Len(s)] \in chars
    THEN RStrip(SubSeq(s, 1, Len(s) - 1), chars)
    ELSE s

\* str.lstrip(chars)
RECURSIVE LStrip(_, _)
LStrip(s, chars) ==
    IF s # <<>> /\ s[1] \in chars THEN LStrip(Tail(s), chars) ELSE s

\* str.strip()
Strip(s) == LStrip(RStrip(s, Whitespace), Whitespace)

\* sep.join(parts)
RECURSIVE Join(_, _)
Join(parts, sep) ==
    IF parts = <<>> THEN <<>>
    ELSE IF Len(parts) = 1 THEN parts[1]
    ELSE parts[1] \o sep \o Join(Tail(parts), sep)

\* txt.split(sep)[-1]: what follows the last occurrence of the separator.
RECURSIVE LastPart(_, _)
LastPart(txt, sep) ==
    IF \E i \in DOMAIN txt : txt[i] = sep
    THEN LastPart(SubSeq(txt, (CHOOSE i \in DOMAIN txt : txt[i] = sep) + 1, Len(txt)), sep)
    ELSE txt

\* str.isdigit()
IsDigit(s) == s # <<>> /\ \A i \in DOMAIN s : s[i] \in Digits

\* The regular expression class \w on ASCII text.
IsWordChar(c) == c \in Range(UpperLetters) \cup Range(LowerLetters) \cup Digits \cup {"_"}

\* The regular expression assertion \b before position p (1..Len+1) of text.
WordBoundary(text, p) ==
    LET before == p > 1 /\ IsWordChar(text[p - 1])
        after == p <= Len(text) /\ IsWordChar(text[p])
    IN before # after


\* ---------------------------------------------------------- HTML documents
\* A page is the sequence of its elements in document order.  A table element
\* holds its tr rows; a row is the sequence of its td/th cells; a cell is the
\* sequence of its nodes: text nodes and anchors (href = None: no attribute).
Txt(s) == [tag |-> "text", text |-> s, href |-> None]
Anchor(href, s) == [tag |-> "a", text |-> s, href |-> href]
Table(rows) == [tag |-> "table", class |-> <<>>, rows |-> rows]
Div(class) == [tag |-> "div", class |-> class, rows |-> <<>>]

NonEmpty(s) == s # <<>>

\* Tag.get_text(" ", strip=True): every string of the cell stripped, the empty
\* ones dropped, the rest joined by one space.
GetText(cell) ==
    Join(SelectSeq([i \in DOMAIN cell |-> Strip(cell[i].text)], NonEmpty), <<" ">>)

RECURSIVE Flatten(_)
Flatten(row) == IF row = <<>> THEN <<>> ELSE row[1] \o Flatten(Tail(row))

\* row.find("a", href=True): index of the first anchor carrying an href among
\* the row's nodes, 0 when there is none.
FindAnchor(row) ==
    LET nodes == Flatten(row)
        hits == {i \in DOMAIN nodes : nodes[i].tag = "a" /\ nodes[i].href # None}
    IN IF hits = {} THEN 0 ELSE CHOOSE i \in hits : \A j \in hits : i <= j

PublicUrl(row) ==
    LET a == FindAnchor(row)
    IN IF a # 0 THEN Strip(Flatten(row)[a].href) ELSE None

SchemeHttps == <<"h","t","t","p","s",":","/","/">>
SchemeHttp == <<"h","t","t","p",":","/","/">>
SchemeTcp == <<"t","c","p",":","/","/">>

IsLocalAddr(txt) ==
    /\ ":" \in Range(txt)
    /\ ~ (StartsWith(txt, SchemeHttp) \/ StartsWith(txt, SchemeHttps) \/ StartsWith(txt, SchemeTcp))
    /\ IsDigit(LastPart(txt, ":"))

\* The loop over the cells that sets local_addr: the first cell text that
\* looks like host:port.
LocalAddr(cols) ==
    LET hits == {i \in DOMAIN cols : IsLocalAddr(GetText(cols[i]))}
    IN IF hits = {} THEN None
       ELSE GetText(cols[CHOOSE i \in hits : \A j \in hits : i <= j])

\* ProtoOf testing the scheme's name without its "://".
ProtoOf_NameOnly(public_url) ==
    IF Truthy(public_url)
    THEN IF StartsWith(public_url, <<"h","t","t","p","s">>) THEN <<"h","t","t","p","s">>
         ELSE IF StartsWith(public_url, <<"h","t","t","p">>) THEN <<"h","t","t","p">>
         ELSE IF StartsWith(public_url, <<"t","c","p">>) THEN <<"t","c","p">>
         ELSE None
    ELSE None

ProtoOf(public_url) ==
    IF Truthy(public_url)
    THEN IF StartsWith(public_url, SchemeHttps) THEN <<"h","t","t","p","s">>
         ELSE IF StartsWith(public_url, SchemeHttp) THEN <<"h","t","t","p">>
         ELSE IF StartsWith(public_url, SchemeTcp) THEN <<"t","c","p">>
         ELSE None
    ELSE None

\* The alternatives of the region pattern, in the order the pattern lists them.
RegionAlternatives ==
    << <<"C","N">>, <<"H","K">>, <<"U","S">>, <<"T","W">>, <<"E","U","R">>,
       <<"c","n">>, <<"h","k">>, <<"u","s">>, <<"t","w">>, <<"e","u","r">> >>

\* MatchAt without the closing \b.
MatchAt_NoBoundary(text, i, alt) ==
    /\ i + Len(alt) - 1 <= Len(text)
    /\ SubSeq(text, i, i + Len(alt) - 1) = alt
    /\ WordBoundary(text, i)

\* Does \b alt \b match at position i of text?
MatchAt(text, i, alt) ==
    /\ i + Len(alt) - 1 <= Len(text)
    /\ SubSeq(text, i, i + Len(alt) - 1) = alt
    /\ WordBoundary(text, i)
    /\ WordBoundary(text, i + Len(alt))

\* re.search(r"\b(CN|...|eur)\b", text): the leftmost position where an
\* alternative matches, and there the first alternative in the pattern's order;
\* the result is m.group(0), or None.
RegionSearch(text) ==
    LET hits == {i \in DOMAIN text :
                     \E k \in DOMAIN RegionAlternatives : MatchAt(text, i, RegionAlternatives[k])}
    IN IF hits = {} THEN None
       ELSE LET i == CHOOSE h \in hits : \A j \in hits : h <= j
                k == CHOOSE a \in DOMAIN RegionAlternatives :
                         /\ MatchAt(text, i, RegionAlternatives[a])
                         /\ \A b \in DOMAIN RegionAlternatives :
                                MatchAt(text, i, RegionAlternatives[b]) => a <= b
            IN SubSeq(text, i, i + Len(RegionAlternatives[k]) - 1)

\* " ".join(c.get_text(" ", strip=True) for c in cols)
RowTexts(cols) == Join([i \in DOMAIN cols |-> GetText(cols[i])], <<" ">>)

\* The dict built from one row that has cells.
RowRecord(row) ==
    [name |-> GetText(row[1]),
     url |-> PublicUrl(row),
     proto |-> ProtoOf(PublicUrl(row)),
     local |-> LocalAddr(row),
     region |-> RegionSearch(RowTexts(row))]

\* Included without its test: every row with cells yields a record.
Included_Always(row) == TRUE

\* if name or public_url
Included(row) == GetText(row[1]) # <<>> \/ Truthy(PublicUrl(row))

\* BodyRows skipping the first row of a single-row table too.
BodyRows_AlwaysSkip(rows) == IF rows = <<>> THEN rows ELSE Tail(rows)

\* body_rows = rows[1:] if len(rows) >= 2 else rows
BodyRows(rows) == IF Len(rows) >= 2 THEN Tail(rows) ELSE rows

\* The for loop over body_rows.
RECURSIVE ParseRows(_)
ParseRows(body_rows) ==
    IF body_rows = <<>> THEN <<>>
    ELSE LET row == body_rows[1]
         IN IF row = <<>> THEN ParseRows(Tail(body_rows))
            ELSE IF Included(row) THEN <<RowRecord(row)>> \o ParseRows(Tail(body_rows))
            ELSE ParseRows(Tail(body_rows))

\* soup.find(tag) restricted by a class pattern when one is given: the index
\* of the first such element of the page, 0 when there is none.
FindTag(page, tag, classPattern) ==
    LET hits == {i \in DOMAIN page :
                    /\ page[i].tag = tag
                    /\ classPattern # None => Contains(Lower(page[i].class), classPattern)}
    IN IF hits = {} THEN 0 ELSE CHOOSE i \in hits : \A j \in hits : i <= j

\* soup.find("table") or soup.find("table", {"class": re.compile(r".*table.*", re.I)})
FindTable(page) ==
    IF FindTag(page, "table", None) # 0 THEN FindTag(page, "table", None)
    ELSE FindTag(page, "table", <<"t","a","b","l","e">>)

\* parse_online_tunnels: ok = FALSE is the RuntimeError "no table found".
parse_online_tunnels(page) ==
    LET table == FindTable(page)
    IN IF table = 0 THEN [ok |-> FALSE, tunnels |-> <<>>]
       ELSE [ok |-> TRUE, tunnels |-> ParseRows(BodyRows(page[table].rows))]


\* ------------------------------------------------------------ name filter
\* FilterKeeps comparing the name as it is written.
FilterKeeps_CaseSensitive(t, name_filter) ==
    Truthy(t.name) /\ Contains(t.name, Lower(name_filter))

\* t.get("name") and name_filter.lower() in t["name"].lower()
FilterKeeps(t, name_filter) ==
    Truthy(t.name) /\ Contains(Lower(t.name), Lower(name_filter))

\* if name_filter: tunnels = [t for t in tunnels if ...]
ApplyFilter(tunnels, name_filter) ==
    IF Truthy(name_filter)
    THEN LET Keep(t) == FilterKeeps(t, name_filter) IN SelectSeq(tunnels, Keep)
    ELSE tunnels

\* --------------------------------------------------------------- exporters
\* The label of the group of records without a name (the source's label is
\* written in Chinese; the model spells it in ASCII).
UNNAMED_LABEL == <<"(","u","n","n","a","m","e","d",")">>

\* t.get("name") or "(...)"
GroupKey(t) == IF Truthy(t.name) THEN t.name ELSE UNNAMED_LABEL

\* GroupAdd putting a new group first.
GroupAdd_NewFirst(grouped, t) ==
    IF \E i \in DOMAIN grouped : grouped[i].key = GroupKey(t)
    THEN [i \in DOMAIN grouped |->
            IF grouped[i].key = GroupKey(t)
            THEN [key |-> grouped[i].key, items |-> Append(grouped[i].items, t)]
            ELSE grouped[i]]
    ELSE <<[key |-> GroupKey(t), items |-> <<t>>]>> \o grouped

\* grouped.setdefault(key, []).append(t) on an insertion-ordered dict, held
\* as the sequence of its (key, items) entries.
GroupAdd(grouped, t) ==
    IF \E i \in DOMAIN grouped : grouped[i].key = GroupKey(t)
    THEN [i \in DOMAIN grouped |->
            IF grouped[i].key = GroupKey(t)
            THEN [key |-> grouped[i].key, items |-> Append(grouped[i].items, t)]
            ELSE grouped[i]]
    ELSE Append(grouped, [key |-> GroupKey(t), items |-> <<t>>])

RECURSIVE GroupFrom(_, _)
GroupFrom(grouped, tunnels) ==
    IF tunnels = <<>> THEN grouped
    ELSE GroupFrom(GroupAdd(grouped, tunnels[1]), Tail(tunnels))

\* _group_by_name
group_by_name(tunnels) == GroupFrom(<<>>, tunnels)

\* v or ""
OrEmpty(v) == IF Truthy(v) THEN v ELSE <<>>

\* str(v) inside an f-string
PyStr(v) == IF v = None THEN <<"N","o","n","e">> ELSE v

\* An exporter yields the content it writes and the list as the call leaves it
\* (the list is passed by reference).

\* save_json: json.dump of the list, every key kept, in the dict's key order.
save_json(tunnels) ==
    [content |-> [i \in DOMAIN tunnels |->
                    << <<"name", tunnels[i].name>>, <<"url", tunnels[i].url>>,
                       <<"proto", tunnels[i].proto>>, <<"local", tunnels[i].local>>,
                       <<"region", tunnels[i].region>> >>],
     tunnels |-> tunnels]

\* save_csv replacing the None fields in the records it is handed.
save_csv_InPlace(tunnels) ==
    LET blanked == [i \in DOMAIN tunnels |->
                      [name |-> OrEmpty(tunnels[i].name), url |-> OrEmpty(tunnels[i].url),
                       proto |-> OrEmpty(tunnels[i].proto), local |-> OrEmpty(tunnels[i].local),
                       region |-> OrEmpty(tunnels[i].region)]]
    IN [content |-> << <<"name", "proto", "url", "local", "region">> >> \o
                    [i \in DOMAIN blanked |->
                       << blanked[i].name, blanked[i].proto, blanked[i].url,
                          blanked[i].local, blanked[i].region >>],
        tunnels |-> blanked]

\* save_csv: the header, then one line per record with None written as "".
save_csv(tunnels) ==
    [content |-> << <<"name", "proto", "url", "local", "region">> >> \o
                 [i \in DOMAIN tunnels |->
                    << OrEmpty(tunnels[i].name), OrEmpty(tunnels[i].proto),
                       OrEmpty(tunnels[i].url), OrEmpty(tunnels[i].local),
                       OrEmpty(tunnels[i].region) >>],
     tunnels |-> tunnels]

\* proto_badge: the css class of the badge.
proto_badge(proto) ==
    IF proto = <<"h","t","t","p","s">> THEN "proto proto-https"
    ELSE IF proto = <<"h","t","t","p">> THEN "proto proto-http"
    ELSE IF proto = <<"t","c","p">> THEN "proto proto-tcp"
    ELSE "proto"

\* render_group: the title's name and count, and one table line per record.
render_group(name, items) ==
    [name |-> name,
     count |-> Len(items),
     rows |-> [i \in DOMAIN items |->
                 << proto_badge(items[i].proto),
                    IF Truthy(items[i].url) THEN items[i].url ELSE <<>>,
                    PyStr(items[i].local), PyStr(items[i].region) >>]]

\* save_html: the total and one section per group (the timestamp is left out).
save_html(tunnels) ==
    LET grouped == group_by_name(tunnels)
    IN [content |-> [total |-> Len(tunnels),
                     sections |-> [g \in DOMAIN grouped |->
                                     render_group(grouped[g].key, grouped[g].items)]],
        tunnels |-> tunnels]


\* ------------------------------------------------------------ input values
S_svc1 == <<"s","v","c","1">>
S_urlA == <<"h","t","t","p","s",":","/","/","a",".","e","x","a","m","p","l","e",".","c","o","m">>
S_urlB == <<"t","c","p",":","/","/","b",".","e","x","a","m","p","l","e",".","c","o","m">>
S_local1 == <<"1","9","2",".","1","6","8",".","1",".","2",":","8","0","8","0">>
S_local2 == <<"1","0",".","0",".","0",".","5",":","2","2">>
S_WebA == <<"W","e","b","-","A">>
S_webb == <<"w","e","b","-","b">>
S_web == <<"w","e","b">>
S_WEBdash == <<"W","E","B","-">>
S_tok == <<"t","o","k">>
S_ftpC == <<"f","t","p",":","/","/","c">>
S_httpA == <<"h","t","t","p",":","/","/","a">>
S_httpsPadded == <<" ","h","t","t","p","s",":","/","/","a"," ">>
S_dataTable == <<"d","a","t","a","-","T","a","b","l","e">>
S_pathA == <<"a",".","o","u","t">>
S_statusQuery == <<"?","n","e","x","t","=","s","t","a","t","u","s">>

\* Rows of a status table.  RowSvc1 and RowTcp are the two rows of the
\* documented scenario.
RowHeader == << <<Txt(<<"N","a","m","e">>)>>, <<Txt(<<"U","R","L">>)>> >>
RowSvc1 == << <<Txt(S_svc1)>>, <<Anchor(S_urlA, S_urlA)>>, <<Txt(S_local1)>>, <<Txt(<<"C","N">>)>> >>
RowTcp == << <<Txt(<<>>)>>, <<Anchor(S_urlB, S_urlB)>>, <<Txt(S_local2)>>, <<Txt(<<"u","s">>)>> >>
RowNoCells == <<>>
RowBlank == << <<Txt(<<" ">>)>>, <<Txt(<<"H","K">>)>> >>
RowEmptyHref == << <<Txt(<<"n","5">>)>>, <<Anchor(<<" ">>, <<"x">>)>> >>
RowBlankEmptyHref == << <<Txt(<<>>), Anchor(<<>>, <<>>)>>, <<Txt(<<"T","W">>)>> >>
RowWebA == << <<Txt(<<" ">>), Txt(S_WebA)>>, <<Anchor(S_httpsPadded, <<"a">>)>>, <<Txt(<<"E","u","r">>)>> >>
RowFtp == << <<Txt(<<"f">>)>>, <<Anchor(S_ftpC, <<"c">>)>> >>
RowWebB == << <<Txt(S_webb)>>, <<Anchor(None, <<"x">>), Anchor(S_httpA, <<"a">>)>>, <<Txt(<<"E","U","R","1"," ","T","W">>)>> >>

SampleRows ==
    {RowSvc1, RowTcp, RowNoCells, RowBlank, RowEmptyHref, RowBlankEmptyHref, RowWebA,
     RowWebB, RowFtp}

\* All sequences over a set, up to a length.
SeqsUpTo(S, n) == UNION {[1..k -> S] : k \in 0..n}

\* Hrefs: a scheme-like prefix, a separator, a host.
HrefPrefixes ==
    { <<"h","t","t","p","s">>, <<"h","t","t","p">>, <<"t","c","p">>, <<"f","t","p">>,
      <<"H","T","T","P">>, <<"x","t","c","p">>, <<>> }
HrefSeparators == { <<":","/","/">>, <<":","/">>, <<>> }
Hrefs == {p \o sep \o <<"a">> : p \in HrefPrefixes, sep \in HrefSeparators}
UrlRows ==
    { << <<Txt(n)>>, <<Anchor(h, <<>>)>> >> : n \in {<<>>, <<"n">>}, h \in Hrefs }

\* Cell texts for the region pattern: every text over a small alphabet, cut
\* into one or two cells, and some texts naming several codes.  The last cell
\* carries a link, so that the row yields a record whatever its name is.
RegionAlphabet == {"U", "S", "u", "s", "-"}
RegionSampleTexts ==
    { <<"E","U","R">>, <<"E","u","r">>, <<"e","u","r","o">>, <<"H","K","-","u","s">>,
      <<"x","C","N"," ","T","W">>, <<"T","W","1"," ","c","n">>, <<"U","S","_"," ","h","K"," ","t","w">>,
      <<"U","s"," ","u","s">> }
RegionRows ==
    UNION { { << <<Txt(SubSeq(txt, 1, k))>>,
                 <<Txt(SubSeq(txt, k + 1, Len(txt))), Anchor(S_urlB, <<>>)>> >> : k \in 0..Len(txt) } :
            txt \in SeqsUpTo(RegionAlphabet, MaxTextLen) }
    \cup { << <<Txt(txt), Anchor(S_urlB, <<>>)>> >> :
             txt \in SeqsUpTo(RegionAlphabet, MaxTextLen) \cup RegionSampleTexts }

\* Pages given to parse_online_tunnels.
NoTablePages == { <<>>, <<Div(S_dataTable)>> }
ExtractPages ==
    NoTablePages
    \cup { <<Table(rows)>> : rows \in SeqsUpTo(SampleRows, MaxRows) }
    \cup { <<Div(S_dataTable), Table(<<RowHeader, r>>), Table(<<RowHeader, RowSvc1>>)>> : r \in SampleRows }
    \cup { <<Table(<<RowHeader, r>>)>> : r \in UrlRows \cup RegionRows }
    \cup { <<Table(<<r>>)>> : r \in UrlRows }

\* Pages the status endpoint answers with in a run.
StatusPages ==
    NoTablePages
    \cup { <<Table(<<RowHeader, RowWebA, RowWebB, RowTcp>>)>>, <<Table(<<RowSvc1>>)>> }

\* Records as parse_online_tunnels builds them.
Rec(name, url) ==
    [name |-> name, url |-> url, proto |-> ProtoOf(url), local |-> None, region |-> None]

FilterNames == { <<>>, S_WebA, S_webb, <<"b">>, <<"W","E","B">>, <<"a","b">> }
FilterKeywords == { None, <<>>, S_web, <<"B">>, S_WEBdash, <<"-","a">> }
FilterLists == SeqsUpTo({Rec(n, S_urlB) : n \in FilterNames}, MaxTunnels)

GroupNames == { <<>>, <<"a">>, <<"b">>, UNNAMED_LABEL }
GroupLists == SeqsUpTo({Rec(n, u) : n \in GroupNames, u \in {S_urlA, S_urlB}}, MaxTunnels)


\* ------------------------------------------------------------------- state
VARIABLES
    pc,           \* where the run (or the function under check) stands
    out_json,     \* run's arguments
    out_csv,
    out_html,
    name_filter,
    csrf,         \* login_dashboard's local: the token read from the login page
    log,          \* the requests the session has sent, with their responses
    error,        \* the exception that ended the run, NoError while there is none
    html,         \* the status page's document
    extracted,    \* what parse_online_tunnels returned
    tunnels,      \* run's local list
    calls,        \* the exporter calls made, each with the list it was handed
    files,        \* path -> content, the files written
    ret,          \* run's return value
    grouped       \* _group_by_name's result

vars == <<pc, out_json, out_csv, out_html, name_filter, csrf, log, error, html,
          extracted, tunnels, calls, files, ret, grouped>>

NoError == [type |-> "none", in |-> "none"]
NoFiles == <<>>

Exceptions == {"Timeout", "ConnectionError"}
StatusCodes == {200, 404, 500}
CsrfValues == {None, S_tok}
OutPaths == {None, <<>>, S_pathA}

\* What the network can answer: an exception of the transport, or a response
\* with its status, its final URL after redirects and its body.
Raised(e) == [exc |-> e, status |-> 0, url |-> <<>>, csrf |-> None, page |-> <<>>]
Response(status, url, token, page) ==
    [exc |-> "none", status |-> status, url |-> url, csrf |-> token, page |-> page]

LoginGetResponses ==
    {Raised(e) : e \in Exceptions}
    \cup {Response(st, LOGIN_URL, c, <<>>) : st \in StatusCodes, c \in CsrfValues}

FinalUrls ==
    { LOGIN_URL, LOGIN_URL \o <<"/">>, LOGIN_URL \o <<"/","/">>,
      LOGIN_URL \o S_statusQuery, STATUS_URL, DASHBOARD_BASE \o <<"/">> }

LoginPostResponses ==
    {Raised(e) : e \in Exceptions}
    \cup {Response(st, u, None, <<>>) : st \in StatusCodes, u \in FinalUrls}

StatusGetResponses ==
    {Raised(e) : e \in Exceptions}
    \cup {Response(st, STATUS_URL, None, pg) : st \in StatusCodes, pg \in StatusPages}

\* Response.raise_for_status(): HTTPError for a 4xx or 5xx status.
RaisesForStatus(status) == 400 <= status /\ status < 600

\* LoginRejected comparing the final URL as it is, slashes kept.
LoginRejected_Exact(url) == url = LOGIN_URL

\* resp.url.rstrip("/") == LOGIN_URL.rstrip("/")
LoginRejected(url) == RStrip(url, {"/"}) = RStrip(LOGIN_URL, {"/"})

Request(method, url, timeout, data, resp) ==
    [method |-> method, url |-> url, timeout |-> timeout, data |-> data, resp |-> resp]

\* An exception leaves run: nothing after the raising statement executes.
Raise(type, in) ==
    /\ error' = [type |-> type, in |-> in]
    /\ pc' = "raised"

\* --------------------------------------------------------------------- run
Init ==
    /\ pc = "login_get"
    /\ out_json \in OutPaths /\ out_csv \in OutPaths /\ out_html \in OutPaths
    /\ name_filter \in {None, <<>>, S_web}
    /\ csrf = None
    /\ log = <<>>
    /\ error = NoError
    /\ html = <<>>
    /\ extracted = <<>>
    /\ tunnels = <<>>
    /\ calls = <<>>
    /\ files = NoFiles
    /\ ret = None
    /\ grouped = <<>>

\* get_csrf_from_login, called first by login_dashboard.
LoginGet ==
    /\ pc = "login_get"
    /\ \E r \in LoginGetResponses :
        /\ log' = Append(log, Request("GET", LOGIN_URL, LOGIN_GET_TIMEOUT, None, r))
        /\ IF r.exc # "none" THEN Raise(r.exc, "login_dashboard") /\ UNCHANGED csrf
           ELSE IF RaisesForStatus(r.status)
                THEN Raise("HTTPError", "login_dashboard") /\ UNCHANGED csrf
                ELSE csrf' = r.csrf /\ pc' = "login_post" /\ UNCHANGED error
    /\ UNCHANGED <<out_json, out_csv, out_html, name_filter, html, extracted, tunnels,
                   calls, files, ret, grouped>>

\* The rest of login_dashboard: the submission and the test of the final URL.
LoginPost ==
    /\ pc = "login_post"
    /\ \E r \in LoginPostResponses :
        LET payload == [login |-> "email", password |-> "password",
                        csrf_token |-> IF Truthy(csrf) THEN csrf ELSE None]
        IN /\ log' = Append(log, Request("POST", LOGIN_URL, LOGIN_POST_TIMEOUT, payload, r))
           /\ IF r.exc # "none" THEN Raise(r.exc, "login_dashboard")
              ELSE IF LoginRejected(r.url) THEN Raise("RuntimeError", "login_dashboard")
                   ELSE pc' = "fetch" /\ UNCHANGED error
    /\ UNCHANGED <<out_json, out_csv, out_html, name_filter, csrf, html, extracted,
                   tunnels, calls, files, ret, grouped>>

\* fetch_status_html
FetchStatus ==
    /\ pc = "fetch"
    /\ \E r \in StatusGetResponses :
        /\ log' = Append(log, Request("GET", STATUS_URL, STATUS_GET_TIMEOUT, None, r))
        /\ IF r.exc # "none" THEN Raise(r.exc, "fetch_status_html") /\ UNCHANGED html
           ELSE IF RaisesForStatus(r.status)
                THEN Raise("HTTPError", "fetch_status_html") /\ UNCHANGED html
                ELSE html' = r.page /\ pc' = "parse" /\ UNCHANGED error
    /\ UNCHANGED <<out_json, out_csv, out_html, name_filter, csrf, extracted, tunnels,
                   calls, files, ret, grouped>>

\* Parse going on with an empty list when no table is found.
Parse_SwallowError ==
    /\ pc = "parse"
    /\ LET res == parse_online_tunnels(html)
       IN /\ extracted' = res.tunnels
          /\ tunnels' = res.tunnels
          /\ pc' = "filter"
          /\ UNCHANGED error
    /\ UNCHANGED <<out_json, out_csv, out_html, name_filter, csrf, log, html, calls,
                   files, ret, grouped>>

\* tunnels = parse_online_tunnels(html)
Parse ==
    /\ pc = "parse"
    /\ LET res == parse_online_tunnels(html)
       IN IF res.ok
          THEN /\ extracted' = res.tunnels
               /\ tunnels' = res.tunnels
               /\ pc' = "filter"
               /\ UNCHANGED error
          ELSE /\ Raise("RuntimeError", "parse_online_tunnels")
               /\ UNCHANGED <<extracted, tunnels>>
    /\ UNCHANGED <<out_json, out_csv, out_html, name_filter, csrf, log, html, calls,
                   files, ret, grouped>>

\* if name_filter: tunnels = [...]
Filter ==
    /\ pc = "filter"
    /\ tunnels' = ApplyFilter(tunnels, name_filter)
    /\ pc' = "save_json"
    /\ UNCHANGED <<out_json, out_csv, out_html, name_filter, csrf, log, error, html,
                   extracted, calls, files, ret, grouped>>

\* if out_x: save_x(tunnels, out_x).  open() may fail, and then nothing is
\* written and the exception leaves run.
Export(fn, path, result, next) ==
    IF Truthy(path)
    THEN \E opened \in BOOLEAN :
            /\ calls' = Append(calls, [fn |-> fn, path |-> path, arg |-> tunnels, opened |-> opened])
            /\ IF opened
               THEN /\ files' = (path :> [fn |-> fn, content |-> result.content]) @@ files
                    /\ tunnels' = result.tunnels
                    /\ pc' = next
                    /\ UNCHANGED error
               ELSE /\ Raise("OSError", fn)
                    /\ UNCHANGED <<files, tunnels>>
    ELSE /\ pc' = next
         /\ UNCHANGED <<calls, files, tunnels, error>>

SaveJson ==
    /\ pc = "save_json"
    /\ Export("save_json", out_json, save_json(tunnels), "save_csv")
    /\ UNCHANGED <<out_json, out_csv, out_html, name_filter, csrf, log, html, extracted,
                   ret, grouped>>

SaveCsv ==
    /\ pc = "save_csv"
    /\ Export("save_csv", out_csv, save_csv(tunnels), "save_html")
    /\ UNCHANGED <<out_json, out_csv, out_html, name_filter, csrf, log, html, extracted,
                   ret, grouped>>

SaveHtml ==
    /\ pc = "save_html"
    /\ Export("save_html", out_html, save_html(tunnels), "return")
    /\ UNCHANGED <<out_json, out_csv, out_html, name_filter, csrf, log, html, extracted,
                   ret, grouped>>

\* return tunnels
Return ==
    /\ pc = "return"
    /\ ret' = tunnels
    /\ pc' = "returned"
    /\ UNCHANGED <<out_json, out_csv, out_html, name_filter, csrf, log, error, html,
                   extracted, tunnels, calls, files, grouped>>

Next ==
    \/ LoginGet
    \/ LoginPost
    \/ FetchStatus
    \/ Parse
    \/ Filter
    \/ SaveJson
    \/ SaveCsv
    \/ SaveHtml
    \/ Return

Spec == Init /\ [][Next]_vars

\* ------------------------------------------- the functions, one at a time
\* parse_online_tunnels applied to a page.
InitExtract ==
    /\ pc = "extract"
    /\ html \in ExtractPages
    /\ out_json = None /\ out_csv = None /\ out_html = None
    /\ name_filter = None
    /\ csrf = None
    /\ log = <<>>
    /\ error = NoError
    /\ extracted = <<>>
    /\ tunnels = <<>>
    /\ calls = <<>>
    /\ files = NoFiles
    /\ ret = None
    /\ grouped = <<>>

Extract ==
    /\ pc = "extract"
    /\ LET res == parse_online_tunnels(html)
       IN IF res.ok
          THEN /\ extracted' = res.tunnels
               /\ pc' = "extracted"
               /\ UNCHANGED error
          ELSE /\ Raise("RuntimeError", "parse_online_tunnels")
               /\ UNCHANGED extracted
    /\ UNCHANGED <<out_json, out_csv, out_html, name_filter, csrf, log, html, tunnels,
                   calls, files, ret, grouped>>

NextExtract == Extract

SpecExtract == InitExtract /\ [][NextExtract]_vars

\* The name filter of run applied to a list of records.
InitFilter ==
    /\ pc = "filter"
    /\ tunnels \in FilterLists
    /\ extracted = tunnels
    /\ name_filter \in FilterKeywords
    /\ out_json = None /\ out_csv = None /\ out_html = None
    /\ csrf = None
    /\ log = <<>>
    /\ error = NoError
    /\ html = <<>>
    /\ calls = <<>>
    /\ files = NoFiles
    /\ ret = None
    /\ grouped = <<>>

NextFilter == Filter

SpecFilter == InitFilter /\ [][NextFilter]_vars

\* _group_by_name applied to a list of records.
InitGroup ==
    /\ pc = "group"
    /\ tunnels \in GroupLists
    /\ extracted = <<>>
    /\ name_filter = None
    /\ out_json = None /\ out_csv = None /\ out_html = None
    /\ csrf = None
    /\ log = <<>>
    /\ error = NoError
    /\ html = <<>>
    /\ calls = <<>>
    /\ files = NoFiles
    /\ ret = None
    /\ grouped = <<>>

Group ==
    /\ pc = "group"
    /\ grouped' = group_by_name(tunnels)
    /\ pc' = "grouped"
    /\ UNCHANGED <<out_json, out_csv, out_html, name_filter, csrf, log, error, html,
                   extracted, tunnels, calls, files, ret>>

NextGroup == Group

SpecGroup == InitGroup /\ [][NextGroup]_vars


\* ================================================================== claims
\* ------------------------------------------------------------ run (Spec)
StatusRequested == \E i \in DOMAIN log : log[i].url = STATUS_URL
StatusFetched == pc \notin {"login_get", "login_post", "fetch"} /\ error.in # "login_dashboard"
                     /\ error.in # "fetch_status_html"

\* C1: when authentication, the status fetch or the extraction fails, the run
\* ends with that error, no exporter has been called and no file has been
\* written, whatever destinations were asked for; and a fetched page without
\* a table always ends the run with parse_online_tunnels' error.
C1_NoOutputOnFailure ==
    /\ error.in \in {"login_dashboard", "fetch_status_html", "parse_online_tunnels"}
          => pc = "raised" /\ calls = <<>> /\ files = NoFiles /\ ret = None
    /\ (StatusFetched /\ pc # "parse" /\ ~ \E i \in DOMAIN html : html[i].tag = "table")
          => /\ error = [type |-> "RuntimeError", in |-> "parse_online_tunnels"]
             /\ calls = <<>> /\ files = NoFiles

C1_Witness ==
    /\ pc = "raised"
    /\ error.in = "parse_online_tunnels"
    /\ Truthy(out_json) /\ Truthy(out_csv) /\ Truthy(out_html)
    /\ html = <<Div(S_dataTable)>>

\* The final URL is the login URL followed by nothing but slashes.
IsLoginUrlUpToSlashes(url) ==
    /\ Len(url) >= Len(LOGIN_URL)
    /\ \A i \in DOMAIN url : IF i <= Len(LOGIN_URL) THEN url[i] = LOGIN_URL[i] ELSE url[i] = "/"

\* C2: a login submission whose final URL is the login URL (trailing slashes
\* apart) makes login_dashboard raise, and no request to the status page is
\* ever sent in that run.
C2_RejectedLoginNeverFetches ==
    \A i \in DOMAIN log :
        (log[i].method = "POST" /\ log[i].resp.exc = "none" /\ IsLoginUrlUpToSlashes(log[i].resp.url))
            => /\ pc = "raised"
               /\ error = [type |-> "RuntimeError", in |-> "login_dashboard"]
               /\ ~ StatusRequested

C2_Witness ==
    /\ pc = "raised"
    /\ Len(log) = 2
    /\ log[2].resp.url = LOGIN_URL \o <<"/", "/">>
    /\ log[2].resp.status = 200
    /\ error.in = "login_dashboard"

\* A failure of the transport: an exception, or a status outside 200..299.
TransportFailure(resp) == resp.exc # "none" \/ resp.status < 200 \/ resp.status > 299

\* C3: after a transport-level failure of the login page's GET or of the
\* login submission's POST, login_dashboard has raised and the run never
\* requests the status page.
C3_TransportFailureFailsLogin ==
    \A i \in DOMAIN log :
        (log[i].url = LOGIN_URL /\ TransportFailure(log[i].resp))
            => /\ pc = "raised"
               /\ error.in = "login_dashboard"
               /\ ~ StatusRequested

ExporterCalled(fn) == \E i \in DOMAIN calls : calls[i].fn = fn /\ calls[i].opened

\* C6: in a run that returns, each format was written exactly when its
\* destination was given (an empty path is no destination), every exporter
\* was handed the filtered list, the list is still that list after the
\* exporters, and it is what run returns.
C6_ExportsAndReturn ==
    pc = "returned" =>
        LET filtered == ApplyFilter(extracted, name_filter)
        IN /\ ExporterCalled("save_json") <=> Truthy(out_json)
           /\ ExporterCalled("save_csv") <=> Truthy(out_csv)
           /\ ExporterCalled("save_html") <=> Truthy(out_html)
           /\ \A p \in {out_json, out_csv, out_html} : Truthy(p) => p \in DOMAIN files
           /\ (\E p \in {out_json, out_csv, out_html} : Truthy(p)) \/ files = NoFiles
           /\ \A i \in DOMAIN calls : calls[i].arg = filtered
           /\ tunnels = filtered
           /\ ret = filtered
           /\ error = NoError

C6_Witness ==
    /\ pc = "returned"
    /\ out_json = None /\ Truthy(out_csv) /\ Truthy(out_html)
    /\ Truthy(name_filter)
    /\ Len(calls) = 2
    /\ Len(ret) = 2
    /\ Len(extracted) = 3


\* ------------------------------------- parse_online_tunnels (SpecExtract)
\* The rows of the page's first table.
TableRows == html[CHOOSE i \in DOMAIN html : html[i].tag = "table" /\ \A j \in 1..(i - 1) : html[j].tag # "table"].rows

\* The data rows as the specification names them: all rows after the first
\* of a table of two rows or more, the only row of a single-row table.
DataRows ==
    IF Len(TableRows) >= 2
    THEN [i \in 1..(Len(TableRows) - 1) |-> TableRows[i + 1]]
    ELSE TableRows

HasCells(row) == row # <<>>
HasNameOrLink(row) == HasCells(row) /\ (GetText(row[1]) # <<>> \/ FindAnchor(row) # 0)
YieldsRecord(row) == HasCells(row) /\ Included(row)

RECURSIVE IsSubsequence(_, _)
IsSubsequence(a, b) ==
    \/ a = <<>>
    \/ /\ b # <<>>
       /\ IF a[1] = b[1] THEN IsSubsequence(Tail(a), Tail(b)) ELSE IsSubsequence(a, Tail(b))

\* C4: every record has a non-empty name or a url, and the records come only
\* from the data rows that have a name or a link: a row with neither leaves
\* no record.
C4_InclusionInvariant ==
    pc = "extracted" =>
        /\ \A i \in DOMAIN extracted : extracted[i].name # <<>> \/ extracted[i].url # None
        /\ LET rows == SelectSeq(DataRows, HasNameOrLink)
           IN IsSubsequence(extracted, [i \in DOMAIN rows |-> RowRecord(rows[i])])

C4_Witness ==
    /\ pc = "extracted"
    /\ html = <<Table(<<RowSvc1, RowBlank, RowTcp>>)>>
    /\ Len(extracted) = 1
    /\ extracted[1].name = <<>>
    /\ extracted[1].url = S_urlB

\* The words of a text: its maximal runs of word characters, by position.
WordStarts(text) ==
    {i \in DOMAIN text : IsWordChar(text[i]) /\ (i = 1 \/ ~ IsWordChar(text[i - 1]))}
WordEnd(text, i) ==
    CHOOSE j \in i..Len(text) :
        /\ \A k \in i..j : IsWordChar(text[k])
        /\ (j = Len(text) \/ ~ IsWordChar(text[j + 1]))
WordAt(text, i) == SubSeq(text, i, WordEnd(text, i))

RegionCodes == { <<"C","N">>, <<"H","K">>, <<"U","S">>, <<"T","W">>, <<"E","U","R">> }
IsCodeAnyCase(word) == \E c \in RegionCodes : Lower(word) = Lower(c)
IsCodeUpperOrLower(word) == \E c \in RegionCodes : word = c \/ word = Lower(c)

\* The first word of the text that is a code, as written there; None without one.
FirstCodeWord(text, IsCode(_)) ==
    LET hits == {i \in WordStarts(text) : IsCode(WordAt(text, i))}
    IN IF hits = {} THEN None
       ELSE WordAt(text, CHOOSE i \in hits : \A j \in hits : i <= j)

RecordRows == SelectSeq(DataRows, YieldsRecord)

\* C8 as the specification states it: the region of every record is the first
\* whole word of its row's space-joined cell texts that is one of the codes in
\* any casing, as written in the row, and is absent when there is none.
C8_RegionAnyCasing ==
    pc = "extracted" =>
        LET rows == RecordRows
        IN /\ Len(extracted) = Len(rows)
           /\ \A i \in DOMAIN extracted :
                 extracted[i].region = FirstCodeWord(RowTexts(rows[i]), IsCodeAnyCase)

\* C8, amended: the region of every record is the first whole word of its
\* row's space-joined cell texts that is one of the codes written all in upper
\* case or all in lower case, as written in the row, and is absent when there
\* is none (a code in mixed case, such as Us, is no match).
C8_RegionUpperOrLower ==
    pc = "extracted" =>
        LET rows == RecordRows
        IN /\ Len(extracted) = Len(rows)
           /\ \A i \in DOMAIN extracted :
                 extracted[i].region = FirstCodeWord(RowTexts(rows[i]), IsCodeUpperOrLower)

C8_Witness ==
    /\ pc = "extracted"
    /\ Len(extracted) = 1
    /\ RowTexts(RecordRows[1]) = <<"U","s"," ","u","s">>
    /\ extracted[1].region = <<"u","s">>

\* The url begins with the scheme's name followed by "://".
HasScheme(url, scheme) ==
    LET prefix == scheme \o <<":", "/", "/">>
    IN /\ url # None
       /\ Len(url) >= Len(prefix)
       /\ \A i \in DOMAIN prefix : url[i] = prefix[i]

Protocols == { <<"h","t","t","p","s">>, <<"h","t","t","p">>, <<"t","c","p">> }

\* C9: the proto of every record is https, http or tcp when its url begins
\* with that name and "://", and absent otherwise; so a proto that is present
\* comes with a url that begins with it.
C9_ProtoFromScheme ==
    pc = "extracted" =>
        \A i \in DOMAIN extracted :
            /\ \A p \in Protocols : HasScheme(extracted[i].url, p) <=> extracted[i].proto = p
            /\ extracted[i].proto \in Protocols \cup {None}
            /\ extracted[i].proto # None => extracted[i].url # None

C9_Witness ==
    /\ pc = "extracted"
    /\ Len(extracted) = 2
    /\ extracted[1].url = S_ftpC /\ extracted[1].proto = None
    /\ extracted[2].url = S_urlA /\ extracted[2].proto = <<"h","t","t","p","s">>

\* C10: the records are those of the data rows, in the rows' order, one for
\* each data row that has cells and passes the inclusion test; a row without
\* cells leaves no record and the rows after it are still read.
C10_RowByRow ==
    pc = "extracted" =>
        LET rows == RecordRows
        IN /\ Len(extracted) = Len(rows)
           /\ Len(extracted) <= Len(SelectSeq(DataRows, HasCells))
           /\ \A i \in DOMAIN extracted : extracted[i] = RowRecord(rows[i])

C10_Witness ==
    /\ pc = "extracted"
    /\ html = <<Table(<<RowSvc1, RowNoCells, RowTcp>>)>>
    /\ Len(extracted) = 1
    /\ extracted[1] = RowRecord(RowTcp)

\* ------------------------------------------------ name filter (SpecFilter)
SameLetter(a, b) ==
    \/ a = b
    \/ \E i \in DOMAIN UpperLetters :
          {a, b} = {UpperLetters[i], LowerLetters[i]}

\* The keyword occurs in the name, letters compared without their case.
OccursIgnoringCase(keyword, name) ==
    \E start \in 0..(Len(name) - Len(keyword)) :
        \A j \in DOMAIN keyword : SameLetter(name[start + j], keyword[j])

NameMatches(t) == t.name # <<>> /\ OccursIgnoringCase(name_filter, t.name)

\* C5: with a non-empty keyword the list after the filter is the records of
\* the extracted list, in their order, whose name is not empty and contains
\* the keyword without regard to case; without a keyword it is the extracted
\* list itself.
C5_FilterBySubstring ==
    pc = "save_json" =>
        IF name_filter # None /\ name_filter # <<>>
        THEN tunnels = SelectSeq(extracted, NameMatches)
        ELSE tunnels = extracted

C5_Witness ==
    /\ pc = "save_json"
    /\ name_filter = S_web
    /\ extracted = <<Rec(S_WebA, S_urlB), Rec(S_webb, S_urlB), Rec(<<>>, S_urlB)>>
    /\ tunnels = <<Rec(S_WebA, S_urlB), Rec(S_webb, S_urlB)>>

\* -------------------------------------------- _group_by_name (SpecGroup)
LabelOf(t) == IF t.name = <<>> THEN UNNAMED_LABEL ELSE t.name
FirstSeen(label) == CHOOSE i \in DOMAIN tunnels :
                        LabelOf(tunnels[i]) = label /\ \A j \in 1..(i - 1) : LabelOf(tunnels[j]) # label

\* C7: the groups are keyed by the records' names, the records without a name
\* under the fixed label; the groups stand in the order in which their keys
\* first occur in the list, each group holds the list's records of its key in
\* the list's order, and grouping the same list again gives the same groups.
C7_GroupingOrder ==
    pc = "grouped" =>
        /\ {grouped[g].key : g \in DOMAIN grouped} = {LabelOf(tunnels[i]) : i \in DOMAIN tunnels}
        /\ \A g, h \in DOMAIN grouped :
              g < h => FirstSeen(grouped[g].key) < FirstSeen(grouped[h].key)
        /\ \A g \in DOMAIN grouped :
              LET InGroup(t) == LabelOf(t) = grouped[g].key
              IN grouped[g].items = SelectSeq(tunnels, InGroup)
        /\ group_by_name(tunnels) = grouped

C7_Witness ==
    /\ pc = "grouped"
    /\ tunnels = <<Rec(<<"b">>, S_urlA), Rec(<<>>, S_urlB), Rec(<<"b">>, S_urlB)>>
    /\ Len(grouped) = 2
    /\ grouped[1].key = <<"b">> /\ Len(grouped[1].items) = 2
    /\ grouped[2].key = UNNAMED_LABEL

====
